---- MODULE Spec2Model ----
(***************************************************************************)
(* Model of src/sddr_network.py: the per-parameter network Sddr_Param_Net   *)
(* (structured head, deep sub-models, orthogonalization) and the composite  *)
(* network SddrNet (forward, get_log_loss, get_regularization).             *)
(*                                                                          *)
(* Tensors are records [kind, r, c, opaque, v].  Tensors whose entries the  *)
(* source computes from caller data alone (X, the structured weights, P)    *)
(* carry integer entries in v.  Tensors produced by an external routine     *)
(* (a deep sub-model, torch.qr, the randomly initialised deep head) are     *)
(* opaque: they carry their shape only, and every operation on them keeps   *)
(* the shape rules of torch (shape mismatch raises RuntimeError).           *)
(***************************************************************************)
EXTENDS Integers, Sequences, FiniteSets, TLC

\* ------------------------------------------------------------------ bounds
MaxCols == 2
MaxRows == 2
MaxWidth == 2
MaxCalls == 3

\* ----------------------------------------------------------- tensor values
\* entry (i, j) of a tensor with values is the rational v[i][j] / den
RTensor(r, c, den, v) ==
  [kind |-> "tensor", r |-> r, c |-> c, opaque |-> FALSE, den |-> den, v |-> v]

Tensor(r, c, v) == RTensor(r, c, 1, v)

Opaque(r, c) ==
  [kind |-> "tensor", r |-> r, c |-> c, opaque |-> TRUE, den |-> 1, v |-> <<>>]

Scalar(x) == [kind |-> "scalar", x |-> x]

Err(e) == [kind |-> "err", error |-> e]

IsErr(t) == t.kind = "err"

Min2(a, b) == IF a < b THEN a ELSE b

RECURSIVE SumSeq(_)
SumSeq(s) == IF Len(s) = 0 THEN 0 ELSE Head(s) + SumSeq(Tail(s))

\* A @ B
MatMul(A, B) ==
  IF IsErr(A) THEN A
  ELSE IF IsErr(B) THEN B
  ELSE IF A.c # B.r THEN Err("RuntimeError")
  ELSE IF A.opaque \/ B.opaque THEN Opaque(A.r, B.c)
  ELSE RTensor(A.r, B.c, A.den * B.den,
         [i \in 1..A.r |-> [j \in 1..B.c |->
            SumSeq([k \in 1..A.c |-> A.v[i][k] * B.v[k][j]])]])

\* A.T
Transpose(A) ==
  IF IsErr(A) THEN A
  ELSE IF A.opaque THEN Opaque(A.c, A.r)
  ELSE RTensor(A.c, A.r, A.den, [i \in 1..A.c |-> [j \in 1..A.r |-> A.v[j][i]]])

\* A - B (same shape)
TSub(A, B) ==
  IF IsErr(A) THEN A
  ELSE IF IsErr(B) THEN B
  ELSE IF A.r # B.r \/ A.c # B.c THEN Err("RuntimeError")
  ELSE IF A.opaque \/ B.opaque THEN Opaque(A.r, A.c)
  ELSE RTensor(A.r, A.c, A.den * B.den,
         [i \in 1..A.r |-> [j \in 1..A.c |-> A.v[i][j] * B.den - B.v[i][j] * A.den]])

\* A + B, where B may be the python number 0 (deep_pred = 0) or a tensor of
\* the same shape
TAdd(A, B) ==
  IF IsErr(A) THEN A
  ELSE IF IsErr(B) THEN B
  ELSE IF B.kind = "scalar" THEN
         IF A.kind = "scalar" THEN Scalar(A.x + B.x)
         ELSE IF A.opaque THEN A
         ELSE RTensor(A.r, A.c, A.den,
                [i \in 1..A.r |-> [j \in 1..A.c |-> A.v[i][j] + B.x * A.den]])
  ELSE IF A.kind = "scalar" THEN
         IF B.opaque THEN B
         ELSE RTensor(B.r, B.c, B.den,
                [i \in 1..B.r |-> [j \in 1..B.c |-> A.x * B.den + B.v[i][j]]])
  ELSE IF A.r # B.r \/ A.c # B.c THEN Err("RuntimeError")
  ELSE IF A.opaque \/ B.opaque THEN Opaque(A.r, A.c)
  ELSE RTensor(A.r, A.c, A.den * B.den,
         [i \in 1..A.r |-> [j \in 1..A.c |-> A.v[i][j] * B.den + B.v[i][j] * A.den]])

\* torch.cat([A, B], 1)
Cat2(A, B) ==
  IF IsErr(A) THEN A
  ELSE IF IsErr(B) THEN B
  ELSE IF A.r # B.r THEN Err("RuntimeError")
  ELSE IF A.opaque \/ B.opaque THEN Opaque(A.r, A.c + B.c)
  ELSE RTensor(A.r, A.c + B.c, A.den * B.den,
         [i \in 1..A.r |-> [j \in 1..(A.c + B.c) |->
            IF j <= A.c THEN A.v[i][j] * B.den ELSE B.v[i][j - A.c] * A.den]])

\* torch.cat(list, 1); an empty list raises
RECURSIVE TorchCat(_)
TorchCat(list) ==
  IF Len(list) = 0 THEN Err("RuntimeError")
  ELSE IF Len(list) = 1 THEN list[1]
  ELSE Cat2(TorchCat(SubSeq(list, 1, Len(list) - 1)), list[Len(list)])

\* ---------------------------------------------------------------- indexing
\* A column-index group of an orthogonalization pattern is either a python
\* slice(lo, hi) or a list of column indices (0-based, non-negative).
Slice(lo, hi) == [kind |-> "slice", lo |-> lo, hi |-> hi, idx |-> <<>>]

IndexList(idx) == [kind |-> "list", lo |-> 0, hi |-> 0, idx |-> idx]

\* X[:, sl]: a slice is clamped to the columns that exist, an index list
\* raises IndexError on an index that is out of range
ColumnIndex(X, sl) ==
  IF sl.kind = "slice" THEN
    LET start == Min2(sl.lo, X.c)
        stop == Min2(sl.hi, X.c)
        n == IF stop > start THEN stop - start ELSE 0
    IN RTensor(X.r, n, X.den, [i \in 1..X.r |-> [j \in 1..n |-> X.v[i][start + j]]])
  ELSE
    IF \E k \in 1..Len(sl.idx) : sl.idx[k] >= X.c THEN Err("IndexError")
    ELSE RTensor(X.r, Len(sl.idx), X.den,
           [i \in 1..X.r |-> [j \in 1..Len(sl.idx) |-> X.v[i][sl.idx[j] + 1]]])

\* Q of torch.qr(A) (reduced): r x min(r, c) with orthonormal columns.  On a
\* matrix without columns the outcome depends on the torch/LAPACK build:
\* an empty Q or a RuntimeError (emptyOk chooses).
TorchQR(A, emptyOk) ==
  IF IsErr(A) THEN A
  ELSE IF A.c = 0 THEN (IF emptyOk THEN Opaque(A.r, 0) ELSE Err("RuntimeError"))
  ELSE Opaque(A.r, Min2(A.r, A.c))

\* nn.Linear(in_features, 1, bias = False) applied to A: A @ weight.T
Linear(weight, A) == MatMul(A, Transpose(weight))

\* ---------------------------------------------------------- Sddr_Param_Net
\* deep_models_dict and deep_shapes are python dicts: sequences of
\* [name, ...] entries in insertion order, names unique.
DeepModel(name, out) == [name |-> name, out |-> out]

DictKeys(d) == {d[i].name : i \in 1..Len(d)}

DictGet(d, key) == d[CHOOSE i \in 1..Len(d) : d[i].name = key]

Absent == [kind |-> "absent"]

NoDeepPredBias == Scalar(1)

\* deep_pred of a network without deep sub-models
NoDeepPred == Scalar(0)

\* Sddr_Param_Net.__init__; weight is the value nn.Linear gives
\* structured_head.weight (1 x struct_shapes).  deep_shapes is kept for the
\* properties only: the source reads it in the constructor alone.
Sddr_Param_Net_init(deep_models_dict, deep_shapes, struct_shapes, orthogonalization_pattern, P, weight) ==
  [P |-> P,
   deep_models_dict |-> deep_models_dict,
   deep_shapes |-> deep_shapes,
   orthogonalization_pattern |-> orthogonalization_pattern,
   structured_head |-> [in_features |-> struct_shapes, weight |-> weight],
   deep_head |->
     IF Len(deep_models_dict) # 0
     THEN LET output_size_of_deep_models ==
                SumSeq([i \in 1..Len(deep_shapes) |-> deep_shapes[i].width])
          IN [in_features |-> output_size_of_deep_models,
              weight |-> Opaque(1, output_size_of_deep_models)]
     ELSE Absent,
   deep_models_exist |-> Len(deep_models_dict) # 0]

orthog_layer_plus(Q, Uhat) == TAdd(Uhat, MatMul(MatMul(Q, Transpose(Q)), Uhat))

\* Utilde = Uhat - Q Q^T Uhat
orthog_layer(Q, Uhat) ==
  LET Projection_Matrix == MatMul(Q, Transpose(Q))
      Utilde == TSub(Uhat, MatMul(Projection_Matrix, Uhat))
  IN Utilde

\* The running state of one forward call: the list built so far, what was
\* read from the batch and from self, which tensor operations completed,
\* and the exception raised, if any.
ForwardStart ==
  [Utilde_list |-> <<>>, batch_reads |-> {"structured"}, attr_reads |-> {},
   done |-> {}, raised |-> Absent]

Raise(acc, e) == [acc EXCEPT !.raised = e]

\* line 97: Utilde_list.append(Utilde_net), after line 93
AppendUtilde(acc, Utilde_net) ==
  IF IsErr(Utilde_net) THEN Raise(acc, Utilde_net)
  ELSE [acc EXCEPT !.done = @ \cup {"orthog"}, !.Utilde_list = Append(@, Utilde_net)]

\* line 93: Utilde_net = self._orthog_layer(Q, Uhat_net), after line 92
Project(acc, Q, Uhat_net) ==
  IF IsErr(Q) THEN Raise(acc, Q)
  ELSE AppendUtilde([acc EXCEPT !.done = @ \cup {"qr"}], orthog_layer(Q, Uhat_net))

\* line 92: Q, R = torch.qr(X_sliced_with_orthogonalization_pattern)
Factorize(acc, X_sliced, Uhat_net, emptyOk) ==
  IF IsErr(X_sliced) THEN Raise(acc, X_sliced)
  ELSE Project([acc EXCEPT !.done = @ \cup {"slice_cat"}],
               TorchQR(X_sliced, emptyOk), Uhat_net)

\* line 91: torch.cat([X[:,sl] for sl in pattern], 1)
SliceColumns(acc, sliced, Uhat_net, emptyOk) ==
  IF \E k \in 1..Len(sliced) : IsErr(sliced[k]) THEN Raise(acc, Err("IndexError"))
  ELSE Factorize(acc, TorchCat(sliced), Uhat_net, emptyOk)

\* lines 90-97: orthogonalize Uhat_net unless the pattern is empty
OrthogonalizeNet(acc, X, pattern, Uhat_net, emptyOk) ==
  IF Len(pattern) > 0
  THEN SliceColumns(acc, [k \in 1..Len(pattern) |-> ColumnIndex(X, pattern[k])],
                    Uhat_net, emptyOk)
  ELSE [acc EXCEPT !.Utilde_list = Append(@, Uhat_net)]

\* one iteration of the loop over deep_models_dict.keys()
DeepIter(self, datadict, X, key, emptyOk, acc) ==
  IF key \notin DOMAIN datadict THEN Raise(acc, Err("KeyError"))
  ELSE IF key \notin DOMAIN self.orthogonalization_pattern
  THEN Raise([acc EXCEPT !.batch_reads = @ \cup {key},
                         !.attr_reads = @ \cup {"orthogonalization_pattern"}],
             Err("KeyError"))
  ELSE OrthogonalizeNet([acc EXCEPT !.batch_reads = @ \cup {key},
                                    !.attr_reads = @ \cup {"orthogonalization_pattern"}],
                        X, self.orthogonalization_pattern[key],
                        Opaque(datadict[key].r, DictGet(self.deep_models_dict, key).out),
                        emptyOk)

\* the loop of lines 83-97, from the i-th key on; an exception ends it
RECURSIVE DeepLoop(_, _, _, _, _, _)
DeepLoop(self, datadict, X, i, emptyOk, acc) ==
  IF i > Len(self.deep_models_dict) \/ acc.raised # Absent THEN acc
  ELSE DeepLoop(self, datadict, X, i + 1, emptyOk,
                DeepIter(self, datadict, X, self.deep_models_dict[i].name, emptyOk, acc))

\* line 101: deep_pred = self.deep_head(Utilde), after line 99
ApplyDeepHead(acc, deep_pred) ==
  IF IsErr(deep_pred) THEN [acc |-> Raise(acc, deep_pred), deep_pred |-> deep_pred]
  ELSE [acc |-> [acc EXCEPT !.done = @ \cup {"deep_head"}], deep_pred |-> deep_pred]

\* line 99: Utilde = torch.cat(Utilde_list, dim = 1)
ConcatUtilde(self, acc, Utilde) ==
  IF IsErr(Utilde) THEN [acc |-> Raise(acc, Utilde), deep_pred |-> Utilde]
  ELSE ApplyDeepHead([acc EXCEPT !.attr_reads = @ \cup {"deep_head"},
                                 !.done = @ \cup {"cat"}],
                     Linear(self.deep_head.weight, Utilde))

\* lines 99-101: concatenate the list and apply the deep head
DeepHead(self, acc) ==
  IF acc.raised # Absent THEN [acc |-> acc, deep_pred |-> acc.raised]
  ELSE ConcatUtilde(self, acc, TorchCat(acc.Utilde_list))

\* lines 107-109: pred = structured_pred + deep_pred; return pred
AddPredictions(acc, structured_pred, deep_pred) ==
  [pred |-> TAdd(structured_pred, deep_pred), batch_reads |-> acc.batch_reads,
   attr_reads |-> acc.attr_reads \cup {"structured_head"},
   done |-> IF IsErr(structured_pred) THEN acc.done
            ELSE acc.done \cup {"structured_head", "add"}]

\* lines 105-109, after the deep part: deep is [acc, deep_pred]
StructuredPart(self, X, deep) ==
  IF deep.acc.raised # Absent
  THEN [pred |-> deep.acc.raised, batch_reads |-> deep.acc.batch_reads,
        attr_reads |-> deep.acc.attr_reads, done |-> deep.acc.done]
  ELSE AddPredictions(deep.acc, Linear(self.structured_head.weight, X), deep.deep_pred)

\* Sddr_Param_Net.forward: [pred, batch_reads, attr_reads, done]; pred is
\* the returned tensor, or the exception raised
Sddr_Param_Net_forward(self, datadict, emptyOk) ==
  IF "structured" \notin DOMAIN datadict
  THEN [pred |-> Err("KeyError"), batch_reads |-> {}, attr_reads |-> {}, done |-> {}]
  ELSE StructuredPart(self, datadict["structured"],
         IF self.deep_models_exist
         THEN DeepHead(self, DeepLoop(self, datadict, datadict["structured"], 1,
                                      emptyOk, ForwardStart))
         ELSE [acc |-> ForwardStart, deep_pred |-> NoDeepPred])

\* Sddr_Param_Net.get_regularization: weights @ P @ weights.T
Sddr_Param_Net_get_regularization(self) ==
  LET weights == self.structured_head.weight
  IN MatMul(MatMul(weights, self.P), Transpose(weights))

\* ------------------------------------------------------------------ SddrNet
Unset == [kind |-> "unset"]

DictEntry(name, value) == [name |-> name, value |-> value]

\* SddrNet.__init__ builds the registry and the distribution type; it
\* assigns neither distribution_layer nor regularization
SddrNet_init(network_info_dict) ==
  [single_parameter_sddr_list |->
     [i \in 1..Len(network_info_dict) |->
        LET value == network_info_dict[i].value
        IN DictEntry(network_info_dict[i].name,
                     Sddr_Param_Net_init(value.deep_models_dict, value.deep_shapes,
                                         value.struct_shapes,
                                         value.orthogonalization_pattern,
                                         value.P, value.weight))],
   distribution_layer |-> Unset,
   regularization |-> Unset]

ForwardEntryReset(old_layer) == [regularization |-> Scalar(0), distribution_layer |-> Unset]

\* line 178: forward first resets self.regularization, and nothing else
ForwardEntry(old_layer) == [regularization |-> Scalar(0), distribution_layer |-> old_layer]

StoreInstanceOnce(old_layer, instance) == IF old_layer = Unset THEN instance ELSE old_layer

\* line 186: self.distribution_layer = <the instance just built>
StoreInstance(old_layer, instance) == instance

\* line 182: pred[parameter_name] = <what the sub-network returned>
StorePrediction(acc, parameter_name, out) ==
  IF IsErr(out) THEN [acc EXCEPT !.raised = out]
  ELSE [acc EXCEPT !.pred = Append(@, DictEntry(parameter_name, out))]

\* lines 181-182: look the sub-network up in the registry and call it
PredIter(registry, parameter_name, data_dict_param, emptyOk, acc) ==
  IF parameter_name \notin DictKeys(registry) THEN [acc EXCEPT !.raised = Err("KeyError")]
  ELSE StorePrediction(acc, parameter_name,
         Sddr_Param_Net_forward(DictGet(registry, parameter_name).value,
                                data_dict_param, emptyOk).pred)

\* lines 179-182: the loop over datadict.items(); an exception ends it
RECURSIVE PredLoop(_, _, _, _, _)
PredLoop(registry, datadict, i, emptyOk, acc) ==
  IF i > Len(datadict) \/ acc.raised # Absent THEN acc
  ELSE PredLoop(registry, datadict, i + 1, emptyOk,
                PredIter(registry, datadict[i].name, datadict[i].value, emptyOk, acc))

\* what an aborted forward leaves: the attributes as set on entry, the
\* exception as the outcome
Aborted(entry, e, called, keys) ==
  [regularization |-> entry.regularization,
   distribution_layer |-> entry.distribution_layer,
   result |-> e, trafo_called |-> called, trafo_keys |-> keys]

\* line 186-188, with the instance the constructor built
StoreAndReturn(entry, instance, keys) ==
  [regularization |-> entry.regularization,
   distribution_layer |-> StoreInstance(entry.distribution_layer, instance),
   result |-> instance, trafo_called |-> TRUE, trafo_keys |-> keys]

\* lines 184-188, after the loop.  The Distribution Family is an external
\* collaborator: its transform (trafoOk) and its distribution constructor
\* (ctorOk) either return or raise.  id is the identity of the instance the
\* constructor builds.
BuildDistribution(entry, loop, trafoOk, ctorOk, id) ==
  IF loop.raised # Absent THEN Aborted(entry, loop.raised, FALSE, {})
  ELSE IF ~trafoOk THEN Aborted(entry, Err("TransformError"), TRUE, DictKeys(loop.pred))
  ELSE IF ~ctorOk THEN Aborted(entry, Err("ValueError"), TRUE, DictKeys(loop.pred))
  ELSE StoreAndReturn(entry,
         [kind |-> "distribution", id |-> id, predicted_parameters |-> loop.pred],
         DictKeys(loop.pred))

\* SddrNet.forward.  Gives the new values of the two attributes, the
\* returned value (an instance or the exception) and the keys handed to the
\* transform.
SddrNet_forward(registry, old_layer, datadict, emptyOk, trafoOk, ctorOk, id) ==
  BuildDistribution(ForwardEntry(old_layer),
                    PredLoop(registry, datadict, 1, emptyOk,
                             [pred |-> <<>>, raised |-> Absent]),
                    trafoOk, ctorOk, id)

SddrNet_get_log_loss_default(layer, Y) ==
  [kind |-> "neg_log_prob", under |-> IF layer = Unset THEN 0 ELSE layer.id, Y |-> Y]

\* SddrNet.get_log_loss: -self.distribution_layer.log_prob(Y); reading the
\* attribute before any assignment raises AttributeError
SddrNet_get_log_loss(layer, Y) ==
  IF layer = Unset THEN Err("AttributeError")
  ELSE [kind |-> "neg_log_prob", under |-> layer.id, Y |-> Y]

RegularizationStartAttr(attr) == IF attr = Unset THEN Err("AttributeError") ELSE attr

\* line 198: regularization = 0, a local; the attribute is not read
RegularizationStart(attr) == Scalar(0)

AccumulateAssign(total, penalty) == penalty

\* line 200: regularization += sddr_net.get_regularization()
Accumulate(total, penalty) == TAdd(total, penalty)

RECURSIVE RegLoop(_, _, _)
RegLoop(registry, i, total) ==
  IF i > Len(registry) \/ IsErr(total) THEN total
  ELSE RegLoop(registry, i + 1,
               Accumulate(total, Sddr_Param_Net_get_regularization(registry[i].value)))

\* SddrNet.get_regularization
SddrNet_get_regularization(registry, attr) == RegLoop(registry, 1, RegularizationStart(attr))

\* ------------------------------------------------------------------- state
VARIABLES
  param_net,                   \* a Sddr_Param_Net under test on its own
  param_call,                  \* the last call made on param_net and its outcome
  single_parameter_sddr_list,  \* SddrNet: the registry, a dict name -> Sddr_Param_Net
  distribution_layer,          \* SddrNet: the stored distribution instance
  regularization,              \* SddrNet: the attribute forward resets
  next_id,                     \* identity of the next distribution instance built
  calls,                       \* number of calls made on the SddrNet
  forwards,                    \* number of forward calls started on the SddrNet
  last_call,                   \* the last call made on the SddrNet and its outcome
  returned,                    \* per pass: the instance its last forward returned
  newest,                      \* the instance the last successful forward returned
  orth_Q, orth_U, orth_R       \* _orthog_layer on its own: arguments and result

param_vars == <<param_net, param_call>>

net_vars == <<single_parameter_sddr_list, distribution_layer, regularization,
              next_id, calls, forwards, last_call, returned, newest>>

orth_vars == <<orth_Q, orth_U, orth_R>>

vars == <<param_vars, net_vars, orth_vars>>

NoCall == [op |-> "none"]

Passes == {"A", "B"}

\* ------------------------------------------------------------------ inputs
Zeros(r, c) == Tensor(r, c, [i \in 1..r |-> [j \in 1..c |-> 0]])

Ramp(r, c) == Tensor(r, c, [i \in 1..r |-> [j \in 1..c |-> i + j - 1]])

Identity(c) == Tensor(c, c, [i \in 1..c |-> [j \in 1..c |-> IF i = j THEN 1 ELSE 0]])

\* structured design matrices
XSet == UNION {{Zeros(r, c), Ramp(r, c)} : r \in 1..MaxRows, c \in 1..MaxCols}

\* values of structured_head.weight for struct_shapes = c
WeightSet(c) ==
  {Tensor(1, c, <<[j \in 1..c |-> -1]>>), Tensor(1, c, <<[j \in 1..c |-> j + 1]>>)}

\* orthogonalization patterns of one deep sub-model
PatternSet ==
  {<<>>,
   <<Slice(0, 1)>>,
   <<Slice(MaxCols - 1, MaxCols + 1)>>,
   <<IndexList(<<0>>)>>,
   <<IndexList(<<MaxCols>>)>>,
   <<Slice(0, 1), Slice(MaxCols, MaxCols + 1)>>}

Widths == 1..MaxWidth

\* the constructor arguments (deep_models_dict, deep_shapes,
\* orthogonalization_pattern) for zero, one and two deep sub-models; the
\* second sub-model has no pattern or the pattern of the first column
DeepConfigs ==
  {[models |-> <<>>, shapes |-> <<>>, pattern |-> <<>>]}
  \cup
  {[models |-> <<DeepModel("d1", a)>>,
    shapes |-> <<[name |-> "d1", width |-> w]>>,
    pattern |-> [k \in {"d1"} |-> p]] : a \in Widths, w \in Widths, p \in PatternSet}
  \cup
  {[models |-> <<DeepModel("d1", a[1]), DeepModel("d2", a[2])>>,
    shapes |-> <<[name |-> "d1", width |-> w[1]], [name |-> "d2", width |-> w[2]]>>,
    pattern |-> [k \in {"d1", "d2"} |-> IF k = "d1" THEN p[1] ELSE p[2]]] :
      a \in Widths \X Widths, w \in Widths \X Widths,
      p \in PatternSet \X {<<>>, <<Slice(0, 1)>>}}

\* the sub-networks with struct_shapes = c
ParamNets(c) ==
  {Sddr_Param_Net_init(d.models, d.shapes, c, d.pattern, Identity(c), w) :
     d \in DeepConfigs, w \in WeightSet(c)}

\* batches of one parameter: the structured matrix and the raw inputs of
\* some deep sub-models, all with the rows of X
Batch(X, keys) == [k \in keys |-> IF k = "structured" THEN X ELSE Opaque(X.r, 1)]

ParamBatches ==
  {Batch(X, keys) : X \in XSet, keys \in SUBSET {"structured", "d1", "d2"}}

\* --------------------------------------------------- Sddr_Param_Net on its own
InitIdleNet ==
  /\ single_parameter_sddr_list = <<>>
  /\ distribution_layer = Unset
  /\ regularization = Unset
  /\ next_id = 1
  /\ calls = 0
  /\ forwards = 0
  /\ last_call = NoCall
  /\ returned = [p \in Passes |-> 0]
  /\ newest = 0

InitIdleParam ==
  /\ param_net = Absent
  /\ param_call = NoCall

InitIdleOrth ==
  /\ orth_Q = Absent
  /\ orth_U = Absent
  /\ orth_R = Absent

InitParam ==
  /\ \E c \in 1..MaxCols : param_net \in ParamNets(c)
  /\ param_call = NoCall
  /\ InitIdleNet
  /\ InitIdleOrth

\* one call per constructed network: forward keeps no state in the
\* sub-network, so a second call adds no behaviour
ParamForward(datadict, emptyOk) ==
  /\ param_call = NoCall
  /\ param_call' = [op |-> "forward", datadict |-> datadict,
                    result |-> Sddr_Param_Net_forward(param_net, datadict, emptyOk)]
  /\ UNCHANGED <<param_net, net_vars, orth_vars>>

ParamGetRegularization ==
  /\ param_call = NoCall
  /\ param_call' = [op |-> "get_regularization", datadict |-> <<>>,
                    result |-> Sddr_Param_Net_get_regularization(param_net)]
  /\ UNCHANGED <<param_net, net_vars, orth_vars>>

NextParam ==
  \/ \E datadict \in ParamBatches, emptyOk \in BOOLEAN : ParamForward(datadict, emptyOk)
  \/ ParamGetRegularization

SpecParam == InitParam /\ [][NextParam]_vars

\* -------------------------------------------------------- SddrNet in use
\* penalty matrices for struct_shapes = c
PSet(c) ==
  {Identity(c), Tensor(c, c, [i \in 1..c |-> [j \in 1..c |-> i + 2 * j]])}

\* a value of network_info_dict, with the weight nn.Linear draws.  The
\* sub-networks registered here have no deep sub-models (torch.qr is never
\* reached in them).
NetInfo(c, P, w) ==
  [deep_models_dict |-> <<>>, deep_shapes |-> <<>>, struct_shapes |-> c,
   orthogonalization_pattern |-> <<>>, P |-> P, weight |-> w]

\* every penalty matrix and weight of PSet and WeightSet
WideInfos ==
  UNION {{NetInfo(c, P, w) : P \in PSet(c), w \in WeightSet(c)} : c \in 1..MaxCols}

\* one sub-network of the least and one of the greatest width
NarrowInfos ==
  {NetInfo(c, Identity(c), Tensor(1, c, <<[j \in 1..c |-> j + 1]>>)) : c \in {1, MaxCols}}

\* network_info_dict: zero, one or two distribution parameters
NetworkInfoDicts(infos) ==
  {<<>>}
  \cup {<<DictEntry("loc", a)>> : a \in infos}
  \cup {<<DictEntry("loc", a), DictEntry("scale", b)>> : a \in infos, b \in infos}

\* the batch of one parameter: X with MaxRows rows and the least or the
\* greatest width, or a batch without the "structured" entry
NetBatches ==
  {Batch(Ramp(MaxRows, c), {"structured"}) : c \in {1, MaxCols}} \cup {<<>>}

BatchNames == {"loc", "scale", "shape"}

\* the batch mapping of forward: up to two names, one of them possibly not
\* a registered parameter, each with the same batch
DataDicts ==
  {<<>>}
  \cup {<<DictEntry(n, b)>> : n \in BatchNames, b \in NetBatches}
  \cup {<<DictEntry(n[1], b), DictEntry(n[2], b)>> :
          n \in {<<"loc", "scale">>, <<"scale", "shape">>}, b \in NetBatches}

\* what the Distribution Family does in one forward call
FamilyOutcomes == {"ok", "transform raises", "constructor raises"}

Targets == {1}

InitNetOf(infos) ==
  /\ \E network_info_dict \in NetworkInfoDicts(infos) :
       LET self == SddrNet_init(network_info_dict)
       IN /\ single_parameter_sddr_list = self.single_parameter_sddr_list
          /\ distribution_layer = self.distribution_layer
          /\ regularization = self.regularization
  /\ next_id = 1
  /\ calls = 0
  /\ forwards = 0
  /\ last_call = NoCall
  /\ returned = [p \in Passes |-> 0]
  /\ newest = 0
  /\ InitIdleParam
  /\ InitIdleOrth

\* what the call before was: "none", or its operation and outcome
Outcome(call) ==
  IF call.op = "none" THEN "none"
  ELSE IF IsErr(call.result) THEN call.op \o ":error" ELSE call.op \o ":ok"

\* pass p calls forward(datadict)
Forward(p, datadict, family) ==
  /\ calls < MaxCalls
  /\ \E out \in {SddrNet_forward(single_parameter_sddr_list, distribution_layer,
                                 datadict, TRUE, family # "transform raises",
                                 family # "constructor raises", next_id)} :
        /\ regularization' = out.regularization
        /\ distribution_layer' = out.distribution_layer
        /\ last_call' = [op |-> "forward", pass |-> p,
                         trafo_keys |-> out.trafo_keys, result |-> out.result]
        /\ next_id' = IF IsErr(out.result) THEN next_id ELSE next_id + 1
        /\ returned' = IF IsErr(out.result) THEN returned
                       ELSE [returned EXCEPT ![p] = out.result.id]
        /\ newest' = IF IsErr(out.result) THEN newest ELSE out.result.id
  /\ calls' = calls + 1
  /\ forwards' = forwards + 1
  /\ UNCHANGED <<single_parameter_sddr_list, param_vars, orth_vars>>

\* pass p calls get_log_loss(Y)
GetLogLoss(p, Y) ==
  /\ calls < MaxCalls
  /\ last_call' = [op |-> "get_log_loss", pass |-> p, after |-> Outcome(last_call),
                   result |-> SddrNet_get_log_loss(distribution_layer, Y)]
  /\ calls' = calls + 1
  /\ UNCHANGED <<single_parameter_sddr_list, distribution_layer, regularization,
                 next_id, forwards, returned, newest, param_vars, orth_vars>>

GetRegularization ==
  /\ calls < MaxCalls
  /\ last_call' = [op |-> "get_regularization",
                   result |-> SddrNet_get_regularization(single_parameter_sddr_list,
                                                         regularization)]
  /\ calls' = calls + 1
  /\ UNCHANGED <<single_parameter_sddr_list, distribution_layer, regularization,
                 next_id, forwards, returned, newest, param_vars, orth_vars>>

NextNet ==
  \/ \E p \in Passes, datadict \in DataDicts, family \in FamilyOutcomes :
       Forward(p, datadict, family)
  \/ \E p \in Passes, Y \in Targets : GetLogLoss(p, Y)
  \/ GetRegularization

\* call sequences on a few networks
InitNet == InitNetOf(NarrowInfos)

Spec == InitNet /\ [][NextNet]_vars

\* shorter call sequences on networks of every weight and penalty matrix
InitReg == InitNetOf(WideInfos)

NextReg == calls < MaxCalls - 1 /\ NextNet

SpecReg == InitReg /\ [][NextReg]_vars

\* ---------------------------------------------------- _orthog_layer on its own
\* columns of length r with entries in fifths and euclidean norm 1
UnitColumns(r) ==
  {col \in [1..r -> {-5, -4, -3, 0, 3, 4, 5}] :
     SumSeq([i \in 1..r |-> col[i] * col[i]]) = 25}

Orthogonal(a, b) == SumSeq([i \in 1..Len(a) |-> a[i] * b[i]]) = 0

\* the sequences of k pairwise orthogonal unit columns
RECURSIVE BasisColumns(_, _)
BasisColumns(r, k) ==
  IF k = 0 THEN {<<>>}
  ELSE UNION {{Append(b, col) :
                 col \in {u \in UnitColumns(r) :
                            \A j \in 1..Len(b) : Orthogonal(b[j], u)}} :
              b \in BasisColumns(r, k - 1)}

\* the matrices Q with r rows and 0..r orthonormal columns
OrthonormalBases(r) ==
  UNION {{RTensor(r, k, 5, [i \in 1..r |-> [j \in 1..k |-> b[j][i]]]) :
            b \in BasisColumns(r, k)} : k \in 0..r}

\* the matrices Uhat with r rows and one or two columns
UhatSet(r) ==
  UNION {{Tensor(r, m, v) : v \in [1..r -> [1..m -> {-1, 2}]]} : m \in {1, 2}}

InitOrth ==
  /\ \E r \in 1..MaxRows : orth_Q \in OrthonormalBases(r) /\ orth_U \in UhatSet(r)
  /\ orth_R = Absent
  /\ InitIdleParam
  /\ InitIdleNet

Orthogonalize ==
  /\ orth_R = Absent
  /\ orth_R' = orthog_layer(orth_Q, orth_U)
  /\ UNCHANGED <<orth_Q, orth_U, param_vars, net_vars>>

NextOrth == Orthogonalize

SpecOrth == InitOrth /\ [][NextOrth]_vars

\* ------------------------------------------- properties of Sddr_Param_Net
ForwardCalled == param_call.op = "forward"

HasX == "structured" \in DOMAIN param_call.datadict

DeclaredWidth(self, key) == DictGet(self.deep_shapes, key).width

\* some deep sub-model's actual output width differs from its declared one
WidthMismatch(self) ==
  \E i \in 1..Len(self.deep_models_dict) :
    self.deep_models_dict[i].out # DeclaredWidth(self, self.deep_models_dict[i].name)

DeepArithmetic == {"orthog", "cat", "deep_head"}

\* C3: whenever a deep sub-model's actual output width differs from its
\* declared width, forward raises and no orthogonalization, concatenation
\* or deep head product has completed.
C3_WidthMismatchRaisesEarly ==
  (ForwardCalled /\ HasX /\ param_net.deep_models_exist /\ WidthMismatch(param_net))
    => /\ IsErr(param_call.result.pred)
       /\ param_call.result.done \cap DeepArithmetic = {}

\* a group that names a column X does not have
GroupOutOfRange(sl, width) ==
  IF sl.kind = "slice" THEN sl.hi > width
  ELSE \E k \in 1..Len(sl.idx) : sl.idx[k] >= width

PatternOutOfRange(self, width) ==
  \E key \in DOMAIN self.orthogonalization_pattern :
    \E k \in 1..Len(self.orthogonalization_pattern[key]) :
      GroupOutOfRange(self.orthogonalization_pattern[key][k], width)

\* C4: whenever a non-empty orthogonalization pattern holds a group that
\* refers to columns outside the width of X, forward raises.
C4_OutOfRangeGroupRaises ==
  (/\ ForwardCalled /\ HasX /\ param_net.deep_models_exist
   /\ DictKeys(param_net.deep_models_dict) \subseteq DOMAIN param_call.datadict
   /\ PatternOutOfRange(param_net, param_call.datadict["structured"].c))
    => IsErr(param_call.result.pred)

RECURSIVE RefDot(_, _, _)
RefDot(u, w, k) == IF k = 0 THEN 0 ELSE u[k] * w[k] + RefDot(u, w, k - 1)

\* X . structured_weights, written out entry by entry
RefStructured(X, weight) ==
  [kind |-> "tensor", r |-> X.r, c |-> 1, opaque |-> FALSE, den |-> 1,
   v |-> [i \in 1..X.r |-> <<RefDot(X.v[i], weight.v[1], X.c)>>]]

\* C6: a network built with zero deep sub-models returns exactly
\* X . structured_weights (nothing added, so a zero X gives a zero
\* prediction), and reads neither a deep head, nor an orthogonalization
\* pattern, nor a batch entry other than "structured".
C6_NoDeepIsStructuredOnly ==
  (ForwardCalled /\ HasX /\ Len(param_net.deep_models_dict) = 0)
    => LET X == param_call.datadict["structured"]
           res == param_call.result
       IN /\ X.c = param_net.structured_head.in_features
               => res.pred = RefStructured(X, param_net.structured_head.weight)
          /\ X.c # param_net.structured_head.in_features => IsErr(res.pred)
          /\ res.batch_reads = {"structured"}
          /\ res.attr_reads \cap {"deep_head", "orthogonalization_pattern"} = {}

C6_Witness ==
  /\ ForwardCalled /\ HasX /\ Len(param_net.deep_models_dict) = 0
  /\ {"d1", "d2"} \subseteq DOMAIN param_call.datadict
  /\ param_call.datadict["structured"] = Ramp(MaxRows, MaxCols)
  /\ ~IsErr(param_call.result.pred)
  /\ param_call.result.pred.v[MaxRows][1] # 0

\* -------------------------------------------------- properties of SddrNet
LossCalled == last_call.op = "get_log_loss"

RegCalled == last_call.op = "get_regularization"

\* the step is a call of op
Step(op) == calls' = calls + 1 /\ last_call'.op = op

\* C1: get_log_loss on a network on which forward was never called raises,
\* and get_log_loss returns a value only after a forward call has
\* completed.
C1_LogLossNeedsForward ==
  LossCalled =>
    /\ forwards = 0 =>
         (IsErr(last_call.result) /\ last_call.result.error = "AttributeError")
    /\ ~IsErr(last_call.result) => newest # 0

C1_Witness ==
  /\ LossCalled /\ forwards = 0 /\ IsErr(last_call.result)
  /\ Len(single_parameter_sddr_list) = 2

\* C2: every successful forward hands the transform a raw-prediction
\* mapping whose keys are exactly the registered parameter names.
C2_TransformGetsEveryParameter ==
  (last_call.op = "forward" /\ ~IsErr(last_call.result))
    => last_call.trafo_keys = DictKeys(single_parameter_sddr_list)

\* w P w^T of one sub-network, written out entry by entry
RefPenalty(self) ==
  LET w == self.structured_head.weight.v[1]
      n == self.structured_head.in_features
  IN SumSeq([i \in 1..n |-> SumSeq([j \in 1..n |-> w[i] * self.P.v[i][j] * w[j]])])

RefTotal(registry) == SumSeq([i \in 1..Len(registry) |-> RefPenalty(registry[i].value)])

\* C5: get_regularization returns the sum of w P w^T over the registered
\* sub-networks, each counted once, whatever forward calls were made before
\* and whatever parameters the last batch held.
C5_RegularizationIsSumOfPenalties ==
  RegCalled =>
    IF Len(single_parameter_sddr_list) = 0 THEN last_call.result = Scalar(0)
    ELSE last_call.result = Tensor(1, 1, <<<<RefTotal(single_parameter_sddr_list)>>>>)

C5_Witness ==
  /\ RegCalled /\ forwards >= 1
  /\ Len(single_parameter_sddr_list) = 2
  /\ distribution_layer # Unset
  /\ Len(distribution_layer.predicted_parameters) = 1
  /\ ~IsErr(last_call.result)
  /\ last_call.result.v[1][1] > 0

\* C8 as claimed: get_regularization before any forward call raises.
C8_RegularizationBeforeForwardRaises ==
  (RegCalled /\ forwards = 0) => IsErr(last_call.result)

\* C8 amended: get_regularization before any forward call raises nothing
\* and returns the penalty sum, although forward never set the attribute
\* regularization.
C8_RegularizationBeforeForwardReturns ==
  (RegCalled /\ forwards = 0) =>
    /\ regularization = Unset
    /\ ~IsErr(last_call.result)
    /\ last_call.result.kind \in {"scalar", "tensor"}
    /\ last_call.result.kind = "tensor" =>
         last_call.result.v[1][1] = RefTotal(single_parameter_sddr_list)

C8_Witness ==
  /\ RegCalled /\ forwards = 0
  /\ Len(single_parameter_sddr_list) = 2
  /\ ~IsErr(last_call.result)
  /\ last_call.result.v[1][1] > 0

C9_Step ==
  /\ Step("get_log_loss") =>
       /\ distribution_layer' = distribution_layer
       /\ IF newest = 0 THEN IsErr(last_call'.result)
          ELSE ~IsErr(last_call'.result) /\ last_call'.result.under = newest
  /\ (Step("forward") /\ ~IsErr(last_call'.result)) =>
       /\ distribution_layer' = last_call'.result
       /\ last_call'.result.id > newest
       /\ distribution_layer # Unset => last_call'.result.id # distribution_layer.id

\* C9: get_log_loss is evaluated under the instance the most recent
\* successful forward returned: a successful forward stores a fresh
\* instance and get_log_loss leaves the stored instance alone.  (With two
\* passes on one network, forward A, forward B, get_log_loss A is evaluated
\* under the instance of B: C9_Witness.)
C9_LogLossUsesNewestInstance == [][C9_Step]_vars

C9_Witness ==
  /\ LossCalled /\ last_call.pass = "A" /\ ~IsErr(last_call.result)
  /\ returned["A"] # 0
  /\ returned["B"] > returned["A"]
  /\ last_call.result.under = returned["B"]

C10_Step ==
  /\ (Step("forward") /\ IsErr(last_call'.result)) =>
       /\ distribution_layer' = distribution_layer
       /\ last_call'.result.kind # "distribution"
  /\ (Step("get_log_loss") /\ last_call.op = "forward" /\ IsErr(last_call.result)) =>
       IF newest = 0 THEN IsErr(last_call'.result)
       ELSE ~IsErr(last_call'.result) /\ last_call'.result.under = newest

\* C10: a forward call that raises returns no instance and leaves the
\* stored instance as it was, so the get_log_loss that follows raises on a
\* network that was uninitialized and is answered from the older instance
\* on a network that was ready.
C10_AbortedForwardKeepsInstance == [][C10_Step]_vars

C10_Witness ==
  /\ LossCalled /\ last_call.after = "forward:error"
  /\ ~IsErr(last_call.result)
  /\ newest # 0
  /\ last_call.result.under = newest

\* -------------------------------------------- properties of _orthog_layer
\* A and B hold the same rationals
TEq(A, B) ==
  /\ A.r = B.r /\ A.c = B.c
  /\ \A i \in 1..A.r : \A j \in 1..A.c : A.v[i][j] * B.den = B.v[i][j] * A.den

IsZero(A) == \A i \in 1..A.r : \A j \in 1..A.c : A.v[i][j] = 0

\* C7: for Q with orthonormal columns and Uhat with the rows of Q, the
\* residual R = _orthog_layer(Q, Uhat) has Q^T R = 0, and R = Uhat when Q
\* has no columns.
C7_ResidualOrthogonalToBasis ==
  orth_R # Absent =>
    /\ ~IsErr(orth_R)
    /\ orth_R.r = orth_U.r /\ orth_R.c = orth_U.c
    /\ IsZero(MatMul(Transpose(orth_Q), orth_R))
    /\ orth_Q.c = 0 => TEq(orth_R, orth_U)

C7_Witness ==
  /\ orth_R # Absent /\ ~IsErr(orth_R)
  /\ orth_Q.r = MaxRows /\ orth_Q.c = 1 /\ orth_Q.v[1][1] = 3
  /\ ~IsZero(MatMul(Transpose(orth_Q), orth_U))
  /\ ~IsZero(orth_R)
  /\ ~TEq(orth_R, orth_U)

====
